---- MODULE Spec2Model ----
(***************************************************************************)
(* A model of BenchTracker (bencher/src/tracker.rs): the per-key access    *)
(* records, the nesting depth with its redundant-time samples, and the     *)
(* summary of the records into 32-byte prefix buckets.                     *)
(*                                                                         *)
(* For a single caller every public method is one action (SpecKeys,        *)
(* SpecRecord, SpecTime, SpecSum). For several threads a method is a       *)
(* sequence of steps between the guards it takes (SpecNest, SpecRace,      *)
(* SpecLock).                                                              *)
(* Widths: depth is a u32. A value v >= 2^31 is written v - 2^32, so that  *)
(* -1 is u32::MAX; only the values near 0 and near u32::MAX are visited.   *)
(* The u128 of the samples is scaled down to 0..U128Max.                   *)
(***************************************************************************)
EXTENDS Integers, Sequences, FiniteSets, TLC

VARIABLES
    build,       \* "debug": arithmetic overflow panics; "release": it wraps
    now,         \* the monotonic clock read by Instant::now()
    instant,     \* BenchTracker.instant
    depth,       \* BenchTracker.depth
    redundant,   \* BenchTracker.redundant
    results,     \* BenchTracker.results
    main_keys,   \* BenchTracker.main_keys: key -> AccessInfo
    child_keys,  \* BenchTracker.child_keys: storage key -> (key -> AccessInfo)
    ret,         \* what the most recent call of a single caller returned
    calls,       \* history: the recording calls since the key maps were last cleared
    touched,     \* history: the keys passed to a recording call since then
    win,         \* history: the shape of the enter/exit calls since depth left 0
    net,         \* history: enter_block calls minus exit_block calls
    wiped,       \* history: what the most recent call was, if it was a reset
    thr,         \* the calling threads: where each is in its call, and its locals
    locks,       \* the RwLock of each field: its writer and its readers
    tally        \* history: the enter/exit calls the threads have completed

vars == <<build, now, instant, depth, redundant, results, main_keys, child_keys,
          ret, calls, touched, win, net, wiped, thr, locks, tally>>

----------------------------------------------------------------------------
(* Bounds of the model *)

\* before_block is not called with depth = MaxDepth
MaxDepth == 3
\* after_block is not called with depth = -MaxWrap (u32::MAX - MaxWrap + 1)
MaxWrap == 1
\* the clock stops at MaxTime
MaxTime == 2
\* after_block does not push onto a results of MaxSamples samples
MaxSamples == 2
\* the largest value of the (scaled) u128
U128Max == 3
\* calls stops recording after MaxCalls calls
MaxCalls == 2

----------------------------------------------------------------------------
(* Keys *)

PrefixLen == 32

Zeros(n) == [i \in 1..n |-> 0]

\* a flat key of 33 bytes
KeyA == Zeros(31) \o <<1, 7>>
\* a flat key shorter than 32 bytes
KeyShort == <<5>>
\* two child storage keys of 16 bytes and one 16-byte key inside them:
\* ChildP \o ChildKey has the 32-byte prefix of KeyA, ChildQ \o ChildKey another
ChildP == Zeros(16)
ChildQ == <<2>> \o Zeros(15)
ChildKey == Zeros(15) \o <<1>>

FlatKeys == {KeyA, KeyShort}
ChildInfos == {ChildP, ChildQ}
InnerKeys == {ChildKey}

----------------------------------------------------------------------------
(* AccessType, AccessInfo *)

None == "None"
Redundant == "Redundant"
Important == "Important"
AccessType == {None, Redundant, Important}

is_important(a) == a = Important

\* mutant: the record of a first read ignores redundant
AccessInfo_read_NeverRedundant(red) ==
    [read |-> Important, written |-> None]

AccessInfo_read(red) ==
    [read |-> IF red THEN Redundant ELSE Important, written |-> None]

\* mutant: a first write counts the key as read
AccessInfo_written_ReadImportant(red) ==
    [read |-> Important, written |-> IF red THEN Redundant ELSE Important]

\* mutant: the record of a first write ignores redundant
AccessInfo_written_NeverRedundant(red) ==
    [read |-> Redundant, written |-> Important]

AccessInfo_written(red) ==
    [read |-> Redundant, written |-> IF red THEN Redundant ELSE Important]

\* the empty HashMap
EmptyMap == <<>>

\* HashMap::insert
Insert(m, k, v) == [x \in (DOMAIN m) \cup {k} |-> IF x = k THEN v ELSE m[x]]

----------------------------------------------------------------------------
(* What a call returns *)

Unit == [kind |-> "unit", val |-> <<>>]
Panic(msg) == [kind |-> "panic", val |-> <<msg>>]
Value(kind, v) == [kind |-> kind, val |-> v]

\* a u32 d compared with 1: the values written as negatives are above 2^31
U32Gt1(d) == d > 1 \/ d < 0

is_redundant == U32Gt1(depth)

NoCalls == [many |-> FALSE, log |-> <<>>]
ManyCalls == [many |-> TRUE, log |-> <<>>]
NoWindow == [phase |-> "none", peak |-> 0, cnt |-> 0]
NotWiped == [by |-> "none", some |-> FALSE, once |-> FALSE]

\* the threads that share the tracker
Threads == {"t1", "t2"}

NoTally == [n |-> 0, under |-> FALSE, drops |-> 0, stamp |-> <<>>,
            calm |-> [t \in Threads |-> {}]]

\* the fields of BenchTracker, each behind its own RwLock
Fields == {"instant", "depth", "redundant", "results", "main_keys", "child_keys"}

\* an RwLock nobody holds
Unlocked == [w |-> {}, r |-> {}]

\* a thread that is in no call
Idle == [pc |-> "idle", key |-> <<>>, part |-> <<>>, red |-> FALSE, t0 |-> 0,
         acc |-> <<>>]

----------------------------------------------------------------------------
\* BenchTracker::new(), but for results
NewTracker ==
    /\ build \in {"debug", "release"}
    /\ now = 0
    /\ instant = 0
    /\ depth = 0
    /\ redundant = 0
    /\ main_keys = EmptyMap
    /\ child_keys = EmptyMap
    /\ ret = Unit
    /\ calls = NoCalls
    /\ touched = {}
    /\ win = NoWindow
    /\ net = [n |-> 0, under |-> FALSE]
    /\ wiped = NotWiped
    /\ thr = [t \in Threads |-> Idle]
    /\ locks = [f \in Fields |-> Unlocked]
    /\ tally = NoTally

Init == NewTracker /\ results = <<>>

timing == <<build, now, instant, depth, redundant, results>>
threads == <<thr, locks, tally>>
keymaps == <<main_keys, child_keys>>

----------------------------------------------------------------------------
(* Access recording *)

\* mutant: a repeated read marks the record Redundant
ReadKnown_Downgrades(info, red) ==
    IF red THEN [info EXCEPT !.read = Redundant]
    ELSE IF is_important(info.written) THEN info
    ELSE [info EXCEPT !.read = Important]

\* mutant: the check of info.written is missing
ReadKnown_IgnoresWritten(info, red) ==
    IF red THEN info
    ELSE [info EXCEPT !.read = Important]

\* the record of a known key after a read
ReadKnown(info, red) ==
    IF red THEN info
    ELSE IF is_important(info.written) THEN info
    ELSE [info EXCEPT !.read = Important]

\* mutant: the check of redundant is missing
WriteKnown_IgnoresRedundant(info, red) ==
    [info EXCEPT !.written = Important]

\* the record of a known key after a write
WriteKnown(info, red) ==
    IF red THEN info
    ELSE [info EXCEPT !.written = Important]

reading_key(key) ==
    LET red == is_redundant IN
    /\ main_keys' = IF key \in DOMAIN main_keys
                    THEN [main_keys EXCEPT ![key] = ReadKnown(@, red)]
                    ELSE Insert(main_keys, key, AccessInfo_read(red))
    /\ ret' = Unit
    /\ UNCHANGED <<timing, child_keys>>

changing_key(key) ==
    LET red == is_redundant IN
    /\ main_keys' = IF key \in DOMAIN main_keys
                    THEN [main_keys EXCEPT ![key] = WriteKnown(@, red)]
                    ELSE Insert(main_keys, key, AccessInfo_written(red))
    /\ ret' = Unit
    /\ UNCHANGED <<timing, child_keys>>

reading_child_key(child_info, key) ==
    LET red == is_redundant
        storage_key == child_info IN
    /\ child_keys' =
         IF storage_key \in DOMAIN child_keys
         THEN IF key \in DOMAIN child_keys[storage_key]
              THEN [child_keys EXCEPT ![storage_key][key] = ReadKnown(@, red)]
              ELSE [child_keys EXCEPT ![storage_key] =
                        Insert(@, key, AccessInfo_read(red))]
         ELSE Insert(child_keys, storage_key,
                     Insert(EmptyMap, key, AccessInfo_read(red)))
    /\ ret' = Unit
    /\ UNCHANGED <<timing, main_keys>>

\* mutant: a new child map replaces child_keys instead of being inserted
changing_child_key_DropsOthers(child_info, key) ==
    LET red == is_redundant
        storage_key == child_info IN
    /\ child_keys' =
         IF storage_key \in DOMAIN child_keys
         THEN IF key \in DOMAIN child_keys[storage_key]
              THEN [child_keys EXCEPT ![storage_key][key] = WriteKnown(@, red)]
              ELSE [child_keys EXCEPT ![storage_key] =
                        Insert(@, key, AccessInfo_written(red))]
         ELSE Insert(EmptyMap, storage_key,
                     Insert(EmptyMap, key, AccessInfo_written(red)))
    /\ ret' = Unit
    /\ UNCHANGED <<timing, main_keys>>

changing_child_key(child_info, key) ==
    LET red == is_redundant
        storage_key == child_info IN
    /\ child_keys' =
         IF storage_key \in DOMAIN child_keys
         THEN IF key \in DOMAIN child_keys[storage_key]
              THEN [child_keys EXCEPT ![storage_key][key] = WriteKnown(@, red)]
              ELSE [child_keys EXCEPT ![storage_key] =
                        Insert(@, key, AccessInfo_written(red))]
         ELSE Insert(child_keys, storage_key,
                     Insert(EmptyMap, key, AccessInfo_written(red)))
    /\ ret' = Unit
    /\ UNCHANGED <<timing, main_keys>>

\* a reset of the key maps that also closes the open windows
reset_storage_tracker_ClosesWindows ==
    /\ main_keys' = EmptyMap
    /\ child_keys' = EmptyMap
    /\ depth' = 0
    /\ ret' = Unit
    /\ UNCHANGED <<build, now, instant, redundant, results>>

reset_storage_tracker ==
    /\ main_keys' = EmptyMap
    /\ child_keys' = EmptyMap
    /\ ret' = Unit
    /\ UNCHANGED timing

----------------------------------------------------------------------------
(* Summary *)

\* the orders in which a HashMap of the keys S may be iterated
Perms(S) ==
    {f \in [1..Cardinality(S) -> S] : \A i, j \in DOMAIN f : i # j => f[i] # f[j]}

\* key[0..32] panics on a key of fewer than 32 bytes
InRange(bytes) == Len(bytes) >= PrefixLen

Slice(bytes) == SubSeq(bytes, 1, PrefixLen)

\* mutant: a record of a known prefix replaces the report instead of adding to it
Tally_Overwrites(summary, bytes, info) ==
    IF summary.panicked \/ ~InRange(bytes)
    THEN [panicked |-> TRUE, map |-> summary.map]
    ELSE LET prefix == Slice(bytes)
             r == IF is_important(info.read) THEN 1 ELSE 0
             w == IF is_important(info.written) THEN 1 ELSE 0
         IN IF prefix \in DOMAIN summary.map
            THEN [summary EXCEPT !.map[prefix] = [read |-> r, written |-> w]]
            ELSE IF r + w > 0
                 THEN [summary EXCEPT !.map =
                           Insert(@, prefix, [read |-> r, written |-> w])]
                 ELSE summary

\* mutant: a report of (0, 0) is inserted too
Tally_KeepsEmpty(summary, bytes, info) ==
    IF summary.panicked \/ ~InRange(bytes)
    THEN [panicked |-> TRUE, map |-> summary.map]
    ELSE LET prefix == Slice(bytes)
             r == IF is_important(info.read) THEN 1 ELSE 0
             w == IF is_important(info.written) THEN 1 ELSE 0
         IN IF prefix \in DOMAIN summary.map
            THEN [summary EXCEPT !.map[prefix] =
                      [read |-> @.read + r, written |-> @.written + w]]
            ELSE [summary EXCEPT !.map =
                      Insert(@, prefix, [read |-> r, written |-> w])]

\* one record folded into the summary: the body of both for_each closures
Tally(summary, bytes, info) ==
    IF summary.panicked \/ ~InRange(bytes)
    THEN [panicked |-> TRUE, map |-> summary.map]
    ELSE LET prefix == Slice(bytes)
             r == IF is_important(info.read) THEN 1 ELSE 0
             w == IF is_important(info.written) THEN 1 ELSE 0
         IN IF prefix \in DOMAIN summary.map
            THEN [summary EXCEPT !.map[prefix] =
                      [read |-> @.read + r, written |-> @.written + w]]
            ELSE IF r + w > 0
                 THEN [summary EXCEPT !.map =
                           Insert(@, prefix, [read |-> r, written |-> w])]
                 ELSE summary

RECURSIVE TallyMain(_, _, _)
\* main_keys iterated in the order om, from its i-th key on
TallyMain(summary, om, i) ==
    IF i > Len(om) THEN summary
    ELSE TallyMain(Tally(summary, om[i], main_keys[om[i]]), om, i + 1)

RECURSIVE TallyChild(_, _, _)
\* child_keys iterated in the order oc of <<storage key, key>> pairs
TallyChild(summary, oc, i) ==
    IF i > Len(oc) THEN summary
    ELSE TallyChild(Tally(summary, oc[i][1] \o oc[i][2],
                          child_keys[oc[i][1]][oc[i][2]]), oc, i + 1)

ChildPairs == {<<p, k>> \in ChildInfos \X InnerKeys :
                  p \in DOMAIN child_keys /\ k \in DOMAIN child_keys[p]}

\* the nested iteration visits the keys of one child map together
ChildOrders ==
    {f \in Perms(ChildPairs) :
        \A i, j \in DOMAIN f :
            (i < j /\ f[i][1] = f[j][1]) =>
                \A m \in i..j : f[m][1] = f[i][1]}

Summarize(om, oc) ==
    TallyChild(TallyMain([panicked |-> FALSE, map |-> EmptyMap], om, 1), oc, 1)

\* the Vec of (prefix, read, written) in the order ob of the summary's keys
Tuples(map, ob) ==
    [i \in DOMAIN ob |-> <<ob[i], map[ob[i]].read, map[ob[i]].written>>]

read_written_keys ==
    /\ \E om \in Perms(DOMAIN main_keys), oc \in ChildOrders :
          LET summary == Summarize(om, oc) IN
          IF summary.panicked
          THEN ret' = Panic("range end index 32 out of range")
          ELSE \E ob \in Perms(DOMAIN summary.map) :
                  ret' = Value("summary", Tuples(summary.map, ob))
    /\ UNCHANGED <<timing, keymaps>>

----------------------------------------------------------------------------
(* Nesting and timing *)

\* time passes
Tick ==
    /\ now < MaxTime
    /\ now' = now + 1
    /\ UNCHANGED <<build, instant, depth, redundant, results, keymaps, ret>>

instant_ ==
    /\ instant' = now
    /\ ret' = Unit
    /\ UNCHANGED <<build, now, depth, redundant, results, keymaps>>

elapsed ==
    /\ ret' = Value("elapsed", <<now - instant>>)
    /\ UNCHANGED <<timing, keymaps>>

before_block ==
    LET timestamp == now IN
    /\ depth # MaxDepth
    /\ IF depth = 0
       THEN /\ depth' = 1
            /\ ret' = Unit
            /\ UNCHANGED redundant
       ELSE IF depth = -1 /\ build = "debug"
       THEN \* u32::MAX + 1: attempt to add with overflow
            /\ ret' = Panic("attempt to add with overflow")
            /\ UNCHANGED <<depth, redundant>>
       ELSE /\ redundant' = IF depth = 1 THEN timestamp ELSE redundant
            /\ depth' = depth + 1
            /\ ret' = Unit
    /\ UNCHANGED <<build, now, instant, results, keymaps>>

\* mutant: every exit from depth >= 2 takes a sample
after_block_SamplesDeeper ==
    /\ depth # -MaxWrap
    /\ depth >= 2 => Len(results) < MaxSamples
    /\ IF depth = 0 /\ build = "debug"
       THEN /\ ret' = Panic("attempt to subtract with overflow")
            /\ UNCHANGED <<depth, results>>
       ELSE /\ results' = IF depth >= 2
                          THEN Append(results, now - redundant)
                          ELSE results
            /\ depth' = depth - 1
            /\ ret' = Unit
    /\ UNCHANGED <<build, now, instant, redundant, keymaps>>

after_block ==
    /\ depth # -MaxWrap
    /\ depth = 2 => Len(results) < MaxSamples
    /\ IF depth = 0 /\ build = "debug"
       THEN \* 0 - 1: attempt to subtract with overflow
            /\ ret' = Panic("attempt to subtract with overflow")
            /\ UNCHANGED <<depth, results>>
       ELSE /\ results' = IF depth = 2
                          THEN Append(results, now - redundant)
                          ELSE results
            /\ depth' = depth - 1
            /\ ret' = Unit
    /\ UNCHANGED <<build, now, instant, redundant, keymaps>>

\* mutant: the sum wraps around
wrapping_add(a, b) == (a + b) % (U128Max + 1)

saturating_add(a, b) == IF a + b > U128Max THEN U128Max ELSE a + b

RECURSIVE SumFrom(_, _, _)
\* the for_each of redundant_time from the i-th sample on
SumFrom(acc, xs, i) ==
    IF i > Len(xs) THEN acc ELSE SumFrom(saturating_add(acc, xs[i]), xs, i + 1)

\* mutant: the assertion on depth is missing
redundant_time_Unchecked ==
    /\ ret' = Value("time", <<SumFrom(0, results, 1)>>)
    /\ UNCHANGED <<timing, keymaps>>

redundant_time ==
    /\ IF depth = 0
       THEN ret' = Value("time", <<SumFrom(0, results, 1)>>)
       ELSE ret' = Panic("benchmark in progress")
    /\ UNCHANGED <<timing, keymaps>>

reset_redundant ==
    /\ depth' = 0
    /\ results' = <<>>
    /\ ret' = Unit
    /\ UNCHANGED <<build, now, instant, redundant, keymaps>>

----------------------------------------------------------------------------
(* History variables: they record the calls made and change nothing else *)

\* a recording call c is added to calls, up to MaxCalls of them
Logged(c) == IF calls.many \/ Len(calls.log) >= MaxCalls
             THEN ManyCalls ELSE [calls EXCEPT !.log = Append(@, c)]

Call(op, part, key) == [op |-> op, part |-> part, key |-> key, red |-> is_redundant]

Recorded(op, part, key) ==
    /\ calls' = Logged(Call(op, part, key))
    /\ touched' = touched \cup {<<part, key>>}
    /\ UNCHANGED <<win, net, wiped, threads>>

Cleared ==
    /\ calls' = NoCalls
    /\ touched' = {}
    /\ UNCHANGED <<win, net, wiped, threads>>

MixedWindow == [phase |-> "mixed", peak |-> 0, cnt |-> 0]

\* enter_block: a window opens at depth 0 and is "up" while only enters follow
Entered ==
    /\ win' = IF depth = 0 THEN [phase |-> "up", peak |-> 1, cnt |-> 0]
              ELSE IF win.phase = "up" /\ depth > 0
              THEN [win EXCEPT !.peak = @ + 1]
              ELSE MixedWindow
    /\ net' = IF net.under THEN net ELSE [net EXCEPT !.n = @ + 1]
    /\ wiped' = [NotWiped EXCEPT !.once = wiped.once]
    /\ UNCHANGED <<calls, touched, threads>>

\* exit_block: the window is "down" while only exits follow its enters
Exited ==
    /\ win' = IF win.phase \in {"up", "down"} /\ depth > 0
              THEN [phase |-> "down", peak |-> win.peak,
                    cnt |-> win.cnt + Len(results') - Len(results)]
              ELSE MixedWindow
    /\ net' = IF net.under \/ depth = 0 THEN [n |-> 0, under |-> TRUE]
              ELSE [net EXCEPT !.n = @ - 1]
    /\ wiped' = [NotWiped EXCEPT !.once = wiped.once]
    /\ UNCHANGED <<calls, touched, threads>>

\* reset_redundant; some: it took the tracker out of a window with samples;
\* once: some call of it did so while both key maps held records
Forgotten ==
    /\ win' = NoWindow
    /\ net' = [n |-> 0, under |-> FALSE]
    /\ wiped' = [by |-> "reset_redundant",
                 some |-> depth # 0 /\ results # <<>>,
                 once |-> \/ wiped.once
                          \/ /\ depth # 0 /\ results # <<>>
                             /\ main_keys # EmptyMap /\ child_keys # EmptyMap]
    /\ UNCHANGED <<calls, touched, threads>>

\* reset_storage_tracker; some: it removed flat and child records
Wiped ==
    /\ wiped' = [by |-> "reset_storage_tracker",
                 some |-> main_keys # EmptyMap /\ child_keys # EmptyMap,
                 once |-> wiped.once]
    /\ UNCHANGED <<calls, touched, win, net, threads>>

\* any other call, where only wiped is kept
Other ==
    /\ wiped' = [NotWiped EXCEPT !.once = wiped.once]
    /\ UNCHANGED <<calls, touched, win, net, threads>>

history == <<calls, touched, win, net, wiped>>

----------------------------------------------------------------------------
(* Several threads on one tracker. A call is a sequence of steps; a step
   starts where the call takes a guard of an RwLock and runs to the next
   such place or to the return. thr[t].pc names the method t is in and,
   after a colon, the field whose guard it takes next. A guard that lives
   for one statement is taken and dropped inside one step; a guard that
   is alive while the call takes another one is kept in locks. *)

\* the guard a call takes at pc l: the field and read ("r") or write ("w")
Guards(l) ==
    CASE l = "instant" -> <<"instant", "w">>
      [] l = "elapsed" -> <<"instant", "r">>
      [] l \in {"reading_key", "changing_key", "reading_child_key",
                "changing_child_key", "redundant_time"} -> <<"depth", "r">>
      [] l \in {"before_block", "after_block", "reset_redundant"} ->
            <<"depth", "w">>
      [] l = "before_block:redundant" -> <<"redundant", "w">>
      [] l = "after_block:redundant" -> <<"redundant", "r">>
      [] l \in {"after_block:results", "reset_redundant:results"} ->
            <<"results", "w">>
      [] l = "redundant_time:results" -> <<"results", "r">>
      [] l \in {"reading_key:main_keys", "changing_key:main_keys",
                "reset_storage_tracker"} -> <<"main_keys", "w">>
      [] l = "read_written_keys" -> <<"main_keys", "r">>
      [] l \in {"reading_child_key:child_keys", "changing_child_key:child_keys",
                "reset_storage_tracker:child_keys"} -> <<"child_keys", "w">>
      [] l = "read_written_keys:child_keys" -> <<"child_keys", "r">>
      [] OTHER -> <<>>

\* mutant: after_block, with the guard of depth, reads depth through
\* self.depth.read() where it should read the anchor
Wants_ExitReadsDepth(l) ==
    IF l = "after_block:redundant" THEN <<"depth", "r">> ELSE Guards(l)

Wants(l) == Guards(l)

\* mutant: the locks exclude nobody
Free_Unguarded(l) == TRUE

\* RwLock::read / RwLock::write would return now: no writer, and for a
\* write no reader (a thread's own guards count: the lock is not reentrant)
Free(l) ==
    LET w == Wants(l) IN
    IF w[2] = "w" THEN locks[w[1]] = Unlocked ELSE locks[w[1]].w = {}

\* t keeps the guard it takes at l
Lock(t, l) ==
    LET w == Wants(l) IN
    IF w[2] = "w" THEN [locks EXCEPT ![w[1]].w = @ \cup {t}]
                  ELSE [locks EXCEPT ![w[1]].r = @ \cup {t}]

\* every guard of t is dropped: the end of its scope, or unwinding
Drop(t) == [f \in Fields |-> [w |-> locks[f].w \ {t}, r |-> locks[f].r \ {t}]]

At(t, l) == thr[t].pc = l

Goto(t, l) == thr' = [thr EXCEPT ![t].pc = l]

\* the call of t ends and hands outcome to t; ret, the outcome of the
\* last call of a single caller, is not used by the threads
Return(t, outcome) ==
    /\ outcome.kind \in {"unit", "panic", "elapsed", "time", "summary"}
    /\ thr' = [thr EXCEPT ![t] = Idle]
    /\ locks' = Drop(t)
    /\ UNCHANGED ret

\* the calls of l under way
Running(l) == Cardinality({u \in Threads : thr[u].pc \in
                  {l, l \o ":redundant", l \o ":results", l \o ":add", l \o ":sub"}})

\* t calls the method l; before_block starts with Instant::now().
\* The enter/exit calls under way stay within MaxDepth, MaxWrap, MaxSamples.
Start(t, l, key, part) ==
    /\ At(t, "idle")
    /\ l = "before_block" => depth + Running(l) < MaxDepth
    /\ l = "after_block" => /\ depth - Running(l) > -MaxWrap
                            /\ Len(results) + Running(l) < MaxSamples
    /\ thr' = [thr EXCEPT ![t] = [Idle EXCEPT !.pc = l, !.key = key, !.part = part,
                                   !.t0 = IF l = "before_block" THEN now ELSE 0]]
    /\ UNCHANGED <<timing, keymaps, ret, locks>>

\* let mut depth = self.depth.write(); and the two tests of *depth
before_block_depth(t) ==
    /\ At(t, "before_block") /\ Free("before_block")
    /\ IF depth = 0
       THEN depth' = 1 /\ Return(t, Unit)
       ELSE IF depth = 1
       THEN /\ locks' = Lock(t, "before_block")
            /\ Goto(t, "before_block:redundant")
            /\ UNCHANGED <<depth, ret>>
       ELSE IF depth = -1 /\ build = "debug"
       THEN Return(t, Panic("attempt to add with overflow")) /\ UNCHANGED depth
       ELSE depth' = depth + 1 /\ Return(t, Unit)
    /\ UNCHANGED <<build, now, instant, redundant, results, keymaps>>

\* *self.redundant.write() = timestamp;
before_block_redundant(t) ==
    /\ At(t, "before_block:redundant") /\ Free("before_block:redundant")
    /\ redundant' = thr[t].t0
    /\ Goto(t, "before_block:add")
    /\ UNCHANGED <<build, now, instant, depth, results, keymaps, ret, locks>>

\* *depth += 1; and the guard of depth is dropped
before_block_add(t) ==
    /\ At(t, "before_block:add")
    /\ IF depth = -1 /\ build = "debug"
       THEN Return(t, Panic("attempt to add with overflow")) /\ UNCHANGED depth
       ELSE depth' = depth + 1 /\ Return(t, Unit)
    /\ UNCHANGED <<build, now, instant, redundant, results, keymaps>>

\* let mut depth = self.depth.write(); if *depth == 2
after_block_depth(t) ==
    /\ At(t, "after_block") /\ Free("after_block")
    /\ IF depth = 2
       THEN /\ locks' = Lock(t, "after_block")
            /\ Goto(t, "after_block:redundant")
            /\ UNCHANGED <<depth, ret>>
       ELSE IF depth = 0 /\ build = "debug"
       THEN Return(t, Panic("attempt to subtract with overflow")) /\ UNCHANGED depth
       ELSE depth' = depth - 1 /\ Return(t, Unit)
    /\ UNCHANGED <<build, now, instant, redundant, results, keymaps>>

\* let redundant = self.redundant.read(); let elapsed = redundant.elapsed()
after_block_redundant(t) ==
    /\ At(t, "after_block:redundant") /\ Free("after_block:redundant")
    /\ locks' = Lock(t, "after_block:redundant")
    /\ thr' = [thr EXCEPT ![t].pc = "after_block:results", ![t].t0 = now - redundant]
    /\ UNCHANGED <<timing, keymaps, ret>>

\* self.results.write().push(elapsed); and the guard of redundant is dropped
after_block_results(t) ==
    /\ At(t, "after_block:results") /\ Free("after_block:results")
    /\ results' = Append(results, thr[t].t0)
    /\ locks' = [locks EXCEPT !["redundant"].r = @ \ {t}]
    /\ Goto(t, "after_block:sub")
    /\ UNCHANGED <<build, now, instant, depth, redundant, keymaps, ret>>

\* *depth -= 1; and the guard of depth is dropped
after_block_sub(t) ==
    /\ At(t, "after_block:sub")
    /\ IF depth = 0 /\ build = "debug"
       THEN Return(t, Panic("attempt to subtract with overflow")) /\ UNCHANGED depth
       ELSE depth' = depth - 1 /\ Return(t, Unit)
    /\ UNCHANGED <<build, now, instant, redundant, results, keymaps>>

\* assert!(*self.depth.read() == 0, "benchmark in progress");
redundant_time_depth(t) ==
    /\ At(t, "redundant_time") /\ Free("redundant_time")
    /\ IF depth = 0
       THEN Goto(t, "redundant_time:results") /\ UNCHANGED <<ret, locks>>
       ELSE Return(t, Panic("benchmark in progress"))
    /\ UNCHANGED <<timing, keymaps>>

\* self.results.read()
redundant_time_results(t) ==
    /\ At(t, "redundant_time:results") /\ Free("redundant_time:results")
    /\ locks' = Lock(t, "redundant_time:results")
    /\ Goto(t, "redundant_time:sum")
    /\ UNCHANGED <<timing, keymaps, ret>>

\* .iter().for_each(|x| elapsed = elapsed.saturating_add(*x)); elapsed
redundant_time_sum(t) ==
    /\ At(t, "redundant_time:sum")
    /\ Return(t, Value("time", <<SumFrom(0, results, 1)>>))
    /\ UNCHANGED <<timing, keymaps>>

\* *self.depth.write() = 0;
reset_redundant_depth(t) ==
    /\ At(t, "reset_redundant") /\ Free("reset_redundant")
    /\ depth' = 0
    /\ Goto(t, "reset_redundant:results")
    /\ UNCHANGED <<build, now, instant, redundant, results, keymaps, ret, locks>>

\* self.results.write().clear();
reset_redundant_results(t) ==
    /\ At(t, "reset_redundant:results") /\ Free("reset_redundant:results")
    /\ results' = <<>>
    /\ Return(t, Unit)
    /\ UNCHANGED <<build, now, instant, depth, redundant, keymaps>>

\* *self.instant.write() = Instant::now();
instant_write(t) ==
    /\ At(t, "instant") /\ Free("instant")
    /\ instant' = now
    /\ Return(t, Unit)
    /\ UNCHANGED <<build, now, depth, redundant, results, keymaps>>

\* self.instant.read().elapsed().as_nanos()
elapsed_read(t) ==
    /\ At(t, "elapsed") /\ Free("elapsed")
    /\ Return(t, Value("elapsed", <<now - instant>>))
    /\ UNCHANGED <<timing, keymaps>>

\* let redundant = self.is_redundant(); in the four recording methods
is_redundant_depth(t) ==
    /\ thr[t].pc \in {"reading_key", "changing_key", "reading_child_key",
                       "changing_child_key"}
    /\ Free(thr[t].pc)
    /\ thr' = [thr EXCEPT ![t].red = U32Gt1(depth),
                          ![t].pc = IF @ \in {"reading_key", "changing_key"}
                                    THEN @ \o ":main_keys" ELSE @ \o ":child_keys"]
    /\ UNCHANGED <<timing, keymaps, ret, locks>>

\* let main_keys = &mut *self.main_keys.write(); match main_keys.get_mut(&key)
reading_key_main_keys(t) ==
    LET red == thr[t].red
        key == thr[t].key IN
    /\ At(t, "reading_key:main_keys") /\ Free("reading_key:main_keys")
    /\ main_keys' = IF key \in DOMAIN main_keys
                    THEN [main_keys EXCEPT ![key] = ReadKnown(@, red)]
                    ELSE Insert(main_keys, key, AccessInfo_read(red))
    /\ Return(t, Unit)
    /\ UNCHANGED <<timing, child_keys>>

\* let child_keys = &mut *self.child_keys.write(); match child_keys.get_mut(..)
changing_child_key_child_keys(t) ==
    LET red == thr[t].red
        key == thr[t].key
        storage_key == thr[t].part IN
    /\ At(t, "changing_child_key:child_keys")
    /\ Free("changing_child_key:child_keys")
    /\ child_keys' =
         IF storage_key \in DOMAIN child_keys
         THEN IF key \in DOMAIN child_keys[storage_key]
              THEN [child_keys EXCEPT ![storage_key][key] = WriteKnown(@, red)]
              ELSE [child_keys EXCEPT ![storage_key] =
                        Insert(@, key, AccessInfo_written(red))]
         ELSE Insert(child_keys, storage_key,
                     Insert(EmptyMap, key, AccessInfo_written(red)))
    /\ Return(t, Unit)
    /\ UNCHANGED <<timing, main_keys>>

\* self.main_keys.read().iter().for_each(..): the summary so far is in acc
read_written_keys_main_keys(t) ==
    /\ At(t, "read_written_keys") /\ Free("read_written_keys")
    /\ \E om \in Perms(DOMAIN main_keys) :
          LET summary == TallyMain([panicked |-> FALSE, map |-> EmptyMap], om, 1) IN
          IF summary.panicked
          THEN Return(t, Panic("range end index 32 out of range"))
          ELSE /\ thr' = [thr EXCEPT ![t].pc = "read_written_keys:child_keys",
                                     ![t].acc = summary.map]
               /\ UNCHANGED <<ret, locks>>
    /\ UNCHANGED <<timing, keymaps>>

\* self.child_keys.read().iter().for_each(..); summary.into_iter()..encode()
read_written_keys_child_keys(t) ==
    /\ At(t, "read_written_keys:child_keys")
    /\ Free("read_written_keys:child_keys")
    /\ \E oc \in ChildOrders :
          LET summary == TallyChild([panicked |-> FALSE, map |-> thr[t].acc], oc, 1) IN
          IF summary.panicked
          THEN Return(t, Panic("range end index 32 out of range"))
          ELSE \E ob \in Perms(DOMAIN summary.map) :
                  Return(t, Value("summary", Tuples(summary.map, ob)))
    /\ UNCHANGED <<timing, keymaps>>

\* self.main_keys.write().clear();
reset_storage_tracker_main_keys(t) ==
    /\ At(t, "reset_storage_tracker") /\ Free("reset_storage_tracker")
    /\ main_keys' = EmptyMap
    /\ Goto(t, "reset_storage_tracker:child_keys")
    /\ UNCHANGED <<timing, child_keys, ret, locks>>

\* self.child_keys.write().clear();
reset_storage_tracker_child_keys(t) ==
    /\ At(t, "reset_storage_tracker:child_keys")
    /\ Free("reset_storage_tracker:child_keys")
    /\ child_keys' = EmptyMap
    /\ Return(t, Unit)
    /\ UNCHANGED <<timing, main_keys>>

----------------------------------------------------------------------------
(* The recording calls, the summary and the nesting they depend on *)

NextKeys ==
    \/ \E key \in FlatKeys : reading_key(key) /\ Recorded("read", <<>>, key)
    \/ \E key \in FlatKeys : changing_key(key) /\ Recorded("write", <<>>, key)
    \/ \E c \in ChildInfos, key \in InnerKeys :
          reading_child_key(c, key) /\ Recorded("read", c, key)
    \/ \E c \in ChildInfos, key \in InnerKeys :
          changing_child_key(c, key) /\ Recorded("write", c, key)
    \/ reset_storage_tracker /\ Cleared
    \/ read_written_keys /\ UNCHANGED <<history, threads>>
    \/ before_block /\ UNCHANGED <<history, threads>>
    \/ after_block /\ UNCHANGED <<history, threads>>
    \/ reset_redundant /\ UNCHANGED <<history, threads>>

SpecKeys == Init /\ [][NextKeys]_vars

(* The nesting and timing calls, with one flat and one child record beside
   them; the recording history is not kept here *)

\* the recording calls inside and outside windows, without summary()
NextRecord ==
    \/ \E key \in FlatKeys : reading_key(key) /\ Recorded("read", <<>>, key)
    \/ \E key \in FlatKeys : changing_key(key) /\ Recorded("write", <<>>, key)
    \/ \E c \in ChildInfos, key \in InnerKeys :
           reading_child_key(c, key) /\ Recorded("read", c, key)
    \/ \E c \in ChildInfos, key \in InnerKeys :
           changing_child_key(c, key) /\ Recorded("write", c, key)
    \/ reset_storage_tracker /\ Cleared
    \/ before_block /\ UNCHANGED <<history, threads>>
    \/ after_block /\ UNCHANGED <<history, threads>>
    \/ reset_redundant /\ UNCHANGED <<history, threads>>

SpecRecord == Init /\ [][NextRecord]_vars

\* history: t has made a step; a call ends when t is idle again. An enter
\* that took depth 1 to 2 leaves its timestamp in stamp, an exit that took
\* depth 2 to 1 is counted in drops, an exit at depth 0 sets under.
Counted(t) ==
    LET done == thr'[t].pc = "idle"
        enter == done /\ thr[t].pc \in {"before_block", "before_block:add"}
        exit == done /\ thr[t].pc \in {"after_block", "after_block:sub"}
        under == tally.under \/ (exit /\ depth = 0) IN
    /\ tally' = [tally EXCEPT
                 !.n = IF under THEN 0
                       ELSE tally.n + (IF enter THEN 1 ELSE 0)
                                    - (IF exit THEN 1 ELSE 0),
                 !.under = under,
                 !.drops = tally.drops +
                           (IF exit /\ depth = 2 /\ depth' = 1 THEN 1 ELSE 0),
                 !.stamp = IF enter /\ depth = 1 /\ depth' = 2
                           THEN <<thr[t].t0>> ELSE tally.stamp]
    /\ UNCHANGED history

\* enter_block and exit_block called by the threads while time passes
NextNest ==
    \/ Tick /\ UNCHANGED <<history, threads>>
    \/ \E t \in Threads, l \in {"before_block", "after_block"} :
           Start(t, l, <<>>, <<>>) /\ UNCHANGED <<history, tally>>
    \/ \E t \in Threads : before_block_depth(t) /\ Counted(t)
    \/ \E t \in Threads : before_block_redundant(t) /\ Counted(t)
    \/ \E t \in Threads : before_block_add(t) /\ Counted(t)
    \/ \E t \in Threads : after_block_depth(t) /\ Counted(t)
    \/ \E t \in Threads : after_block_redundant(t) /\ Counted(t)
    \/ \E t \in Threads : after_block_results(t) /\ Counted(t)
    \/ \E t \in Threads : after_block_sub(t) /\ Counted(t)

SpecNest == Init /\ [][NextNest]_vars

\* history: for every thread that is in redundant_time() past its check of
\* depth, calm holds the sums of the samples as they stood at the moments
\* with depth 0 from that check on
Watched ==
    /\ tally' = [tally EXCEPT !.calm = [u \in Threads |->
          IF thr'[u].pc \in {"redundant_time:results", "redundant_time:sum"}
          THEN (IF thr[u].pc = "redundant_time" THEN {} ELSE tally.calm[u])
               \cup (IF depth' = 0 THEN {SumFrom(0, results', 1)} ELSE {})
          ELSE {}]]
    /\ UNCHANGED history

\* redundant_time() called while other threads open and close windows
NextRace ==
    \/ Tick /\ UNCHANGED <<history, threads>>
    \/ \E t \in Threads, l \in {"before_block", "after_block", "redundant_time"} :
           Start(t, l, <<>>, <<>>) /\ UNCHANGED <<history, tally>>
    \/ \E t \in Threads : before_block_depth(t) /\ Watched
    \/ \E t \in Threads : before_block_redundant(t) /\ Watched
    \/ \E t \in Threads : before_block_add(t) /\ Watched
    \/ \E t \in Threads : after_block_depth(t) /\ Watched
    \/ \E t \in Threads : after_block_redundant(t) /\ Watched
    \/ \E t \in Threads : after_block_results(t) /\ Watched
    \/ \E t \in Threads : after_block_sub(t) /\ Watched
    \/ \E t \in Threads : redundant_time_depth(t) /\ Watched
    \/ \E t \in Threads : redundant_time_results(t) /\ Watched
    \/ \E t \in Threads : redundant_time_sum(t) /\ Watched

SpecRace == Init /\ [][NextRace]_vars

\* the next step of the call t is in: one of the steps of NextLock
Proceed(t) ==
    /\ \/ instant_write(t)
       \/ elapsed_read(t)
       \/ is_redundant_depth(t)
       \/ reading_key_main_keys(t)
       \/ changing_child_key_child_keys(t)
       \/ read_written_keys_main_keys(t)
       \/ read_written_keys_child_keys(t)
       \/ reset_storage_tracker_main_keys(t)
       \/ reset_storage_tracker_child_keys(t)
       \/ before_block_depth(t)
       \/ before_block_redundant(t)
       \/ before_block_add(t)
       \/ after_block_depth(t)
       \/ after_block_redundant(t)
       \/ after_block_results(t)
       \/ after_block_sub(t)
       \/ redundant_time_depth(t)
       \/ redundant_time_results(t)
       \/ redundant_time_sum(t)
       \/ reset_redundant_depth(t)
       \/ reset_redundant_results(t)
    /\ UNCHANGED <<history, tally>>

\* the public methods called by the threads, in any interleaving, with
\* one flat and one partitioned recording method (the other two take the
\* same guards, see Guards)
NextLock ==
    \/ \E t \in Threads, l \in {"instant", "elapsed", "read_written_keys",
                                 "reset_storage_tracker", "before_block",
                                 "after_block", "redundant_time",
                                 "reset_redundant"} :
           Start(t, l, <<>>, <<>>) /\ UNCHANGED <<history, tally>>
    \/ \E t \in Threads :
           Start(t, "reading_key", KeyA, <<>>) /\ UNCHANGED <<history, tally>>
    \/ \E t \in Threads :
           Start(t, "changing_child_key", ChildKey, ChildP)
           /\ UNCHANGED <<history, tally>>
    \/ \E t \in Threads : instant_write(t) /\ UNCHANGED <<history, tally>>
    \/ \E t \in Threads : elapsed_read(t) /\ UNCHANGED <<history, tally>>
    \/ \E t \in Threads : is_redundant_depth(t) /\ UNCHANGED <<history, tally>>
    \/ \E t \in Threads : reading_key_main_keys(t) /\ UNCHANGED <<history, tally>>
    \/ \E t \in Threads : changing_child_key_child_keys(t) /\ UNCHANGED <<history, tally>>
    \/ \E t \in Threads : read_written_keys_main_keys(t) /\ UNCHANGED <<history, tally>>
    \/ \E t \in Threads : read_written_keys_child_keys(t) /\ UNCHANGED <<history, tally>>
    \/ \E t \in Threads : reset_storage_tracker_main_keys(t) /\ UNCHANGED <<history, tally>>
    \/ \E t \in Threads : reset_storage_tracker_child_keys(t) /\ UNCHANGED <<history, tally>>
    \/ \E t \in Threads : before_block_depth(t) /\ UNCHANGED <<history, tally>>
    \/ \E t \in Threads : before_block_redundant(t) /\ UNCHANGED <<history, tally>>
    \/ \E t \in Threads : before_block_add(t) /\ UNCHANGED <<history, tally>>
    \/ \E t \in Threads : after_block_depth(t) /\ UNCHANGED <<history, tally>>
    \/ \E t \in Threads : after_block_redundant(t) /\ UNCHANGED <<history, tally>>
    \/ \E t \in Threads : after_block_results(t) /\ UNCHANGED <<history, tally>>
    \/ \E t \in Threads : after_block_sub(t) /\ UNCHANGED <<history, tally>>
    \/ \E t \in Threads : redundant_time_depth(t) /\ UNCHANGED <<history, tally>>
    \/ \E t \in Threads : redundant_time_results(t) /\ UNCHANGED <<history, tally>>
    \/ \E t \in Threads : redundant_time_sum(t) /\ UNCHANGED <<history, tally>>
    \/ \E t \in Threads : reset_redundant_depth(t) /\ UNCHANGED <<history, tally>>
    \/ \E t \in Threads : reset_redundant_results(t) /\ UNCHANGED <<history, tally>>

\* a thread that is in a call and can take its next guard at some time
\* again and again does so: the task-fair policy of parking_lot::RwLock
SpecLock == Init /\ [][NextLock]_vars /\ \A t \in Threads : SF_vars(Proceed(t))

NextTime ==
    \/ Tick /\ UNCHANGED <<history, threads>>
    \/ reading_key(KeyA) /\ Other
    \/ changing_child_key(ChildP, ChildKey) /\ Other
    \/ reset_storage_tracker /\ Wiped
    \/ instant_ /\ Other
    \/ elapsed /\ Other
    \/ before_block /\ Entered
    \/ after_block /\ Exited
    \/ redundant_time /\ Other
    \/ reset_redundant /\ Forgotten

SpecTime == Init /\ [][NextTime]_vars

(* redundant_time as a function of the samples: results starts as any Vec<u128>
   of up to MaxSamples samples. (From new() the samples are disjoint intervals
   of the clock, and their sum stays below the largest u128.) *)

Samples == UNION {[1..n -> 0..U128Max] : n \in 0..MaxSamples}

InitSum == NewTracker /\ results \in Samples

NextSum ==
    \/ redundant_time /\ UNCHANGED <<history, threads>>
    \/ before_block /\ UNCHANGED <<history, threads>>
    \/ after_block /\ UNCHANGED <<history, threads>>
    \/ reset_redundant /\ UNCHANGED <<history, threads>>

SpecSum == InitSum /\ [][NextSum]_vars

----------------------------------------------------------------------------
(* The records and the reference count the summary is compared with *)

\* every record as <<storage key, key>>; a flat key has the storage key <<>>
Targets == {<<<<>>, k>> : k \in DOMAIN main_keys} \cup ChildPairs

Bytes(t) == t[1] \o t[2]

Info(t) == IF t[1] = <<>> THEN main_keys[t[2]] ELSE child_keys[t[1]][t[2]]

WithPrefix(p) == {t \in Targets : InRange(Bytes(t)) /\ Slice(Bytes(t)) = p}

RefRead(p) == Cardinality({t \in WithPrefix(p) : Info(t).read = Important})

RefWritten(p) == Cardinality({t \in WithPrefix(p) : Info(t).written = Important})

Returned(kind) == ret.kind = kind

\* the prefixes of the buckets summary() returned
Buckets == {ret.val[i][1] : i \in DOMAIN ret.val}

Rank(a) == CASE a = None -> 0 [] a = Redundant -> 1 [] a = Important -> 2

Toward(old, new) ==
    /\ Rank(old) <= Rank(new)
    /\ old = Important => new = Important
    /\ old = Redundant => new \in {Redundant, Important}
    /\ new = None => old = None

InfoToward(old, new) ==
    Toward(old.read, new.read) /\ Toward(old.written, new.written)

----------------------------------------------------------------------------
(* C1: between two calls of reset_storage_tracker every record stays and its
   read state and written state only move toward Important: Important stays
   Important, Redundant stays or becomes Important, nothing returns to None. *)
C1_TowardImportant ==
    [][ \/ reset_storage_tracker
        \/ /\ \A k \in DOMAIN main_keys :
                 /\ k \in DOMAIN main_keys'
                 /\ InfoToward(main_keys[k], main_keys'[k])
           /\ \A p \in DOMAIN child_keys :
                 /\ p \in DOMAIN child_keys'
                 /\ \A k \in DOMAIN child_keys[p] :
                       /\ k \in DOMAIN child_keys'[p]
                       /\ InfoToward(child_keys[p][k], child_keys'[p][k]) ]_vars

\* a flat record whose read went Redundant -> Important (the write that made it
\* was redundant, the later read was not), and a child record written twice
C1_Witness ==
    /\ KeyA \in DOMAIN main_keys
    /\ main_keys[KeyA] = [read |-> Important, written |-> Redundant]
    /\ ChildP \in DOMAIN child_keys
    /\ child_keys[ChildP][ChildKey] = [read |-> Redundant, written |-> Important]

(* C2: a record_read of a key whose record has written = Important, at any
   depth, leaves that record (read and written) as it was; flat and child. *)
C2_WriteDominatesRead ==
    [][ /\ \A k \in FlatKeys :
              ( /\ reading_key(k)
                /\ k \in DOMAIN main_keys
                /\ main_keys[k].written = Important )
              => main_keys'[k] = main_keys[k]
        /\ \A p \in ChildInfos, k \in InnerKeys :
              ( /\ reading_child_key(p, k)
                /\ p \in DOMAIN child_keys
                /\ k \in DOMAIN child_keys[p]
                /\ child_keys[p][k].written = Important )
              => child_keys'[p][k] = child_keys[p][k] ]_vars

\* a non-redundant write of KeyA and then a non-redundant read of it
C2_Witness ==
    /\ calls.log = <<[op |-> "write", part |-> <<>>, key |-> KeyA, red |-> FALSE],
                     [op |-> "read", part |-> <<>>, key |-> KeyA, red |-> FALSE]>>
    /\ main_keys[KeyA] = [read |-> Redundant, written |-> Important]

(* C3: a record_read or record_write at depth >= 2 of a key that has a record
   leaves main_keys and child_keys unchanged, whatever the record holds. *)
C3_RepeatsAreNoOps ==
    [][ /\ \A k \in FlatKeys :
              ( /\ reading_key(k) \/ changing_key(k)
                /\ U32Gt1(depth)
                /\ k \in DOMAIN main_keys )
              => UNCHANGED <<main_keys, child_keys>>
        /\ \A p \in ChildInfos, k \in InnerKeys :
              ( /\ reading_child_key(p, k) \/ changing_child_key(p, k)
                /\ U32Gt1(depth)
                /\ p \in DOMAIN child_keys
                /\ k \in DOMAIN child_keys[p] )
              => UNCHANGED <<main_keys, child_keys>> ]_vars

\* a read of KeyA at depth 1 made it Important, a write at depth >= 2 followed
C3_Witness ==
    /\ calls.log = <<[op |-> "read", part |-> <<>>, key |-> KeyA, red |-> FALSE],
                     [op |-> "write", part |-> <<>>, key |-> KeyA, red |-> TRUE]>>
    /\ main_keys[KeyA] = [read |-> Important, written |-> None]

----------------------------------------------------------------------------
\* summary() was called on the maps as they are and returned or panicked
SummaryCalled ==
    Returned("summary") \/ ret = Panic("range end index 32 out of range")

ReadOf(k) == [op |-> "read", part |-> <<>>, key |-> k, red |-> FALSE]
WriteOf(k) == [op |-> "write", part |-> <<>>, key |-> k, red |-> FALSE]

(* C4 as claimed: from cleared maps, a non-redundant read and a non-redundant
   write of one key of at least 32 bytes, in either order and nothing else,
   make summary() return the one bucket (prefix, 1, 1). *)
C4_EitherOrder ==
    \A k \in FlatKeys :
        ( /\ InRange(k)
          /\ SummaryCalled
          /\ calls.log \in {<<ReadOf(k), WriteOf(k)>>, <<WriteOf(k), ReadOf(k)>>} )
        => ret = Value("summary", << <<Slice(k), 1, 1>> >>)

(* C4 amended: read then write gives the one bucket (prefix, 1, 1); write then
   read gives the one bucket (prefix, 0, 1). *)
C4_ReadThenWrite ==
    \A k \in FlatKeys :
        (InRange(k) /\ SummaryCalled) =>
            /\ calls.log = <<ReadOf(k), WriteOf(k)>>
                  => ret = Value("summary", << <<Slice(k), 1, 1>> >>)
            /\ calls.log = <<WriteOf(k), ReadOf(k)>>
                  => ret = Value("summary", << <<Slice(k), 0, 1>> >>)

C4_Witness ==
    /\ calls.log = <<ReadOf(KeyA), WriteOf(KeyA)>>
    /\ ret = Value("summary", << <<Slice(KeyA), 1, 1>> >>)

\* the Vec in ret is the reference count: no prefix twice; a bucket for the
\* prefix of every record with a positive count; each bucket's counts are
\* RefRead and RefWritten of its prefix and are not both 0
IsReferenceCount ==
    /\ \A i, j \in DOMAIN ret.val : ret.val[i][1] = ret.val[j][1] => i = j
    /\ \A t \in Targets :
          ( /\ InRange(Bytes(t))
            /\ RefRead(Slice(Bytes(t))) + RefWritten(Slice(Bytes(t))) > 0 )
          => Slice(Bytes(t)) \in Buckets
    /\ \A i \in DOMAIN ret.val :
          /\ ret.val[i][2] = RefRead(ret.val[i][1])
          /\ ret.val[i][3] = RefWritten(ret.val[i][1])
          /\ ret.val[i][2] + ret.val[i][3] > 0

(* C5: summary() returns the reference count: for every 32-byte prefix p the
   number of records (flat and child together) of that prefix with read
   Important and with written Important, each record counted once, and a
   bucket for p exactly when the two counts are not both 0. *)
C5_SummaryIsReferenceCount ==
    SummaryCalled => (Returned("summary") /\ IsReferenceCount)

\* what holds: a summary() that returns, returns the reference count
CountsWhenReturned == Returned("summary") => IsReferenceCount

\* a flat and a child record counted in one bucket, a second bucket beside it
TwoBucketsReturned ==
    /\ Returned("summary")
    /\ Len(ret.val) = 2
    /\ \E i \in DOMAIN ret.val : ret.val[i] = <<Slice(KeyA), 2, 1>>

(* C6: main_keys holds exactly the flat keys passed to a recording call since
   the last reset_storage_tracker, and every bucket summary() returns is the
   prefix of a record whose read or written is Important. *)
C6_OnlyRecordedKeys ==
    /\ DOMAIN main_keys = {t[2] : t \in {u \in touched : u[1] = <<>>}}
    /\ {t \in touched : t[1] # <<>>} = ChildPairs
    /\ Returned("summary") =>
          \A p \in Buckets :
              \E t \in WithPrefix(p) :
                  Info(t).read = Important \/ Info(t).written = Important

\* KeyA was only accessed at depth >= 2: it has a record and no bucket
C6_Witness ==
    /\ Returned("summary")
    /\ ret.val = <<>>
    /\ KeyA \in DOMAIN main_keys
    /\ main_keys[KeyA] = [read |-> Redundant, written |-> Redundant]

----------------------------------------------------------------------------
\* a u32 d is at least 2
U32Ge2(d) == d >= 2 \/ d < 0

\* e is d + 1 as numbers: u32::MAX, written -1, has no successor in u32
U32Succ(d, e) == d # -1 /\ e = d + 1

(* C7: enter_block takes depth 0 to 1 and leaves the anchor; takes depth 1 to
   2 and sets the anchor to the current time; takes depth n >= 2 to n + 1 and
   leaves the anchor. While no exit was issued at depth 0, depth is the
   number of enters minus the number of exits (since the tracker was new or
   reset_redundant was called), so depth is 0 only when they are equal. *)
C7_NestingStateMachine ==
    /\ [][ before_block =>
             /\ depth = 0 => (depth' = 1 /\ redundant' = redundant)
             /\ depth = 1 => (depth' = 2 /\ redundant' = now)
             /\ U32Ge2(depth) => (U32Succ(depth, depth') /\ redundant' = redundant)
         ]_vars
    /\ [](~net.under => depth = net.n)

(* C8: exit_block appends now - redundant to results when depth was 2 and
   appends nothing at any other depth. So k >= 2 enters from idle followed by
   k exits append exactly one sample, and when results was empty before,
   redundant_time() then returns that sample. *)
C8_OneSamplePerWindow ==
    /\ [][ after_block =>
             IF depth = 2 THEN results' = Append(results, now - redundant)
                          ELSE results' = results ]_vars
    /\ []( (win.phase = "down" /\ win.peak >= 2 /\ depth = 0) => win.cnt = 1 )
    /\ [][ ( /\ redundant_time
             /\ win.phase = "down" /\ win.peak >= 2 /\ depth = 0
             /\ Len(results) = win.cnt )
           => (Len(results) = 1 /\ ret' = Value("time", <<results[1]>>)) ]_vars

\* three enters and three exits with time passing, then redundant_time()
C8_Witness ==
    /\ win = [phase |-> "down", peak |-> 3, cnt |-> 1]
    /\ depth = 0
    /\ results = <<2>>
    /\ ret = Value("time", <<2>>)

(* C9: redundant_time() with depth # 0 panics and returns nothing; with
   depth = 0 it returns a value; either way the tracker is as it was. *)
C9_RedundantTimeAborts ==
    [][ redundant_time =>
          /\ depth # 0 => ret'.kind = "panic"
          /\ depth = 0 => ret'.kind = "time"
          /\ UNCHANGED <<instant, depth, redundant, results, main_keys, child_keys>>
      ]_vars

\* the call was refused inside a nested window, with samples and records there
C9_Witness ==
    /\ ret = Panic("benchmark in progress")
    /\ depth = 2
    /\ results # <<>>
    /\ main_keys # EmptyMap
    /\ child_keys # EmptyMap

RECURSIVE ExactSum(_)
\* the sum of the samples as a number
ExactSum(xs) == IF xs = <<>> THEN 0 ELSE xs[1] + ExactSum(Tail(xs))

(* C10: at depth 0 redundant_time() returns the sum of the samples when it is
   at most the largest u128, and the largest u128 otherwise. *)
C10_SaturatingSum ==
    [][ (redundant_time /\ depth = 0) =>
          ret' = Value("time", <<IF ExactSum(results) <= U128Max
                                 THEN ExactSum(results) ELSE U128Max>>) ]_vars

\* the samples add up to more than the largest u128 and the call returned it
C10_Witness ==
    /\ ExactSum(results) > U128Max
    /\ depth = 0
    /\ ret = Value("time", <<U128Max>>)

\* ---------------------------------------------------------------------
\* C11: the two resets are independent. Every reset_storage_tracker call
\* leaves both key maps empty and does not change depth, the samples, the
\* anchor or the instant; every reset_redundant call leaves depth 0 and no
\* samples and does not change either key map.
C11_ResetsIndependent ==
    [][/\ reset_storage_tracker =>
            /\ main_keys' = EmptyMap /\ child_keys' = EmptyMap
            /\ UNCHANGED <<depth, results, redundant, instant>>
       /\ reset_redundant =>
            /\ depth' = 0 /\ results' = <<>>
            /\ UNCHANGED <<main_keys, child_keys>>]_vars

\* reset_storage_tracker has just removed flat and child records inside a
\* window, with samples, anchor and instant set, after an earlier
\* reset_redundant had cleared a window with samples over non-empty key maps
C11_Witness ==
    /\ wiped.by = "reset_storage_tracker" /\ wiped.some /\ wiped.once
    /\ main_keys = EmptyMap /\ child_keys = EmptyMap
    /\ depth = 2 /\ results # <<>> /\ redundant > 0 /\ instant > 0

\* ---------------------------------------------------------------------
\* C12: summary() is total for every key. Whatever byte strings were
\* recorded as keys, a key shorter than 32 bytes included, a call of
\* summary() returns a report and does not abort.
C12_SummaryTotal ==
    SummaryCalled => Returned("summary")

\* summary() returns a report while every recorded key has 32 bytes or more
C12_TotalOnLongKeys ==
    (SummaryCalled /\ \A t \in Targets : InRange(Bytes(t))) => Returned("summary")

\* summary() aborts while a recorded key is shorter than 32 bytes
C12_AbortsOnShortKey ==
    (SummaryCalled /\ \E t \in Targets : ~InRange(Bytes(t))) => ~Returned("summary")

\* ---------------------------------------------------------------------
\* C14: summary() is deterministic. A call of summary() that follows a
\* call of summary() on the same key maps returns the same sequence of
\* (prefix, read_count, written_count) tuples in the same order.
C14_SummaryDeterministic ==
    [][(read_written_keys /\ Returned("summary")) => ret' = ret]_vars

\* the tuples of a returned report, without their order
TupleSet(r) == {r.val[i] : i \in DOMAIN r.val}

\* the second call returns the same tuples, each once, in some order
C14_SameTuples ==
    [][(read_written_keys /\ Returned("summary")) =>
          /\ ret'.kind = "summary"
          /\ Len(ret'.val) = Len(ret.val)
          /\ TupleSet(ret') = TupleSet(ret)
          /\ Cardinality(TupleSet(ret)) = Len(ret.val)]_vars

\* ---------------------------------------------------------------------
\* C15: record_read(key), with redundant = (depth > 1) at the call. A key
\* with no record gets the record {read = Redundant if redundant else
\* Important, written = None}. For a key with a record, when redundant is
\* false and written is not Important, read becomes Important and written
\* is unchanged. No other flat record and no child record changes.
C15_RecordRead ==
    [][\A k \in FlatKeys : reading_key(k) =>
          /\ k \notin DOMAIN main_keys =>
                main_keys'[k] = [read |-> IF U32Gt1(depth) THEN Redundant
                                                          ELSE Important,
                                 written |-> None]
          /\ ( /\ k \in DOMAIN main_keys
               /\ ~U32Gt1(depth)
               /\ main_keys[k].written # Important ) =>
                main_keys'[k] = [read |-> Important,
                                 written |-> main_keys[k].written]
          /\ DOMAIN main_keys' = DOMAIN main_keys \cup {k}
          /\ \A j \in DOMAIN main_keys \ {k} : main_keys'[j] = main_keys[j]
          /\ child_keys' = child_keys]_vars

\* since the maps were cleared: a redundant write of KeyA, then a
\* non-redundant read of it, which has made read Important and kept written
C15_Witness ==
    /\ calls = [many |-> FALSE,
                log |-> <<[op |-> "write", part |-> <<>>, key |-> KeyA, red |-> TRUE],
                          [op |-> "read", part |-> <<>>, key |-> KeyA, red |-> FALSE]>>]
    /\ ret = Unit
    /\ main_keys = Insert(EmptyMap, KeyA, [read |-> Important, written |-> Redundant])

\* ---------------------------------------------------------------------
\* C16: record_write(key). A key with no record gets the record {read =
\* Redundant, written = Redundant if depth > 1 else Important}. For a key
\* with a record, when depth <= 1, written becomes Important whatever read
\* is, and read is unchanged.
C16_RecordWrite ==
    [][\A k \in FlatKeys : changing_key(k) =>
          /\ k \notin DOMAIN main_keys =>
                main_keys'[k] = [read |-> Redundant,
                                 written |-> IF U32Gt1(depth) THEN Redundant
                                                             ELSE Important]
          /\ (k \in DOMAIN main_keys /\ ~U32Gt1(depth)) =>
                main_keys'[k] = [read |-> main_keys[k].read,
                                 written |-> Important]]_vars

\* since the maps were cleared: a redundant read of KeyA, then a
\* non-redundant write of it, which has made written Important and kept read
C16_Witness ==
    /\ calls = [many |-> FALSE,
                log |-> <<[op |-> "read", part |-> <<>>, key |-> KeyA, red |-> TRUE],
                          [op |-> "write", part |-> <<>>, key |-> KeyA, red |-> FALSE]>>]
    /\ ret = Unit
    /\ main_keys = Insert(EmptyMap, KeyA, [read |-> Redundant, written |-> Important])

\* ---------------------------------------------------------------------
\* C17: exit_block is total and depth stays in range. In every reachable
\* state depth has not wrapped below 0 to a huge value, and the only call
\* that has aborted is redundant_time() inside a window.
C17_ExitTotal ==
    /\ depth >= 0
    /\ Returned("panic") => ret = Panic("benchmark in progress")

\* a build with overflow checks aborts the exit at depth 0 and keeps depth
C17_DebugAborts ==
    build = "debug" => depth >= 0

\* a build without overflow checks aborts in redundant_time() only
C17_ReleaseWraps ==
    (build = "release" /\ Returned("panic")) => ret = Panic("benchmark in progress")

\* ---------------------------------------------------------------------
\* the map m after the per-key rule of op for key k
PerKey(op, m, k, red) ==
    IF k \in DOMAIN m
    THEN [m EXCEPT ![k] = IF op = "read" THEN ReadKnown(@, red)
                                         ELSE WriteKnown(@, red)]
    ELSE Insert(m, k, IF op = "read" THEN AccessInfo_read(red)
                                     ELSE AccessInfo_written(red))

\* the child map of partition p, empty while p has none
Bucket(p) == IF p \in DOMAIN child_keys THEN child_keys[p] ELSE EmptyMap

\* an operation on (p, k) applies the per-key rule to the child map of p,
\* creates it if missing, and changes no other child map and no flat record
Partitioned(op, p, k) ==
    /\ DOMAIN child_keys' = DOMAIN child_keys \cup {p}
    /\ child_keys'[p] = PerKey(op, Bucket(p), k, U32Gt1(depth))
    /\ \A q \in DOMAIN child_keys \ {p} : child_keys'[q] = child_keys[q]
    /\ main_keys' = main_keys

\* an operation on k applies the per-key rule to main_keys, no child record
Flat(op, k) ==
    /\ main_keys' = PerKey(op, main_keys, k, U32Gt1(depth))
    /\ child_keys' = child_keys

\* C20: the partitioned recording operations apply the per-key rules of
\* the flat ones, step by step, to the child map of their partition, which
\* they create if missing; they change no record of another partition and
\* none of flat_keys; a flat operation changes nothing in partitioned_keys.
C20_PartitionsLikeFlat ==
    [][/\ \A k \in FlatKeys :
            /\ reading_key(k) => Flat("read", k)
            /\ changing_key(k) => Flat("write", k)
       /\ \A p \in ChildInfos, k \in InnerKeys :
            /\ reading_child_key(p, k) => Partitioned("read", p, k)
            /\ changing_child_key(p, k) => Partitioned("write", p, k)]_vars

\* since the maps were cleared: a non-redundant read of (ChildQ, ChildKey),
\* then a redundant write of (ChildP, ChildKey), which has created the
\* child map of ChildP beside the one of ChildQ
C20_Witness ==
    /\ calls = [many |-> FALSE,
                log |-> <<[op |-> "read", part |-> ChildQ, key |-> ChildKey,
                           red |-> FALSE],
                          [op |-> "write", part |-> ChildP, key |-> ChildKey,
                           red |-> TRUE]>>]
    /\ ret = Unit
    /\ main_keys = EmptyMap
    /\ DOMAIN child_keys = {ChildP, ChildQ}
    /\ child_keys[ChildQ][ChildKey] = [read |-> Important, written |-> None]
    /\ child_keys[ChildP][ChildKey] = [read |-> Redundant, written |-> Redundant]

\* ---------------------------------------------------------------------
\* C18: concurrent enter_block/exit_block calls are atomic on depth.
\* Whenever no call holds the guard of depth (so also once all calls have
\* completed): depth is the number of completed enters minus completed
\* exits, unless an exit ran at depth 0; the anchor is the timestamp of the
\* last enter that took depth from 1 to 2, so the anchor is never seen
\* written without that depth change; the number of samples is the number
\* of exits that took depth from 2 to 1.
C18_AtomicNesting ==
    locks["depth"] = Unlocked =>
        /\ ~tally.under => depth = tally.n
        /\ redundant = IF tally.stamp = <<>> THEN 0 ELSE tally.stamp[1]
        /\ Len(results) = tally.drops

\* a thread is inside exit_block after its push and before its decrement,
\* for the second sample, while the other thread has called enter_block
\* at a later time and waits for the guard of depth
C18_Witness ==
    \E t, u \in Threads :
        /\ thr[t].pc = "after_block:sub" /\ thr[u].pc = "before_block"
        /\ locks["depth"].w = {t}
        /\ tally.drops = 1 /\ Len(results) = 2 /\ results[2] > 0
        /\ depth = 2 /\ thr[u].t0 > redundant /\ redundant > 0

\* ---------------------------------------------------------------------
\* C19: under concurrent callers, a value returned by redundant_time() is
\* the saturating sum of the samples as they stood at a moment with
\* depth 0, from the depth check of that call on: it includes no sample
\* of a window another thread opened after the check.
C19_ConsistentSum ==
    [][\A t \in Threads :
          redundant_time_sum(t) => SumFrom(0, results, 1) \in tally.calm[t]]_vars

\* ---------------------------------------------------------------------
\* the threads whose guards keep t from the guard it takes next
Blockers(t) ==
    LET w == Wants(thr[t].pc) IN
    IF w = <<>> THEN {}
    ELSE IF w[2] = "w" THEN locks[w[1]].w \cup locks[w[1]].r
    ELSE locks[w[1]].w

\* some threads each wait for a guard held inside the group
WaitCycle ==
    \E S \in SUBSET Threads : S # {} /\ \A t \in S : Blockers(t) \cap S # {}

\* C13: no deadlock. Under any interleaving of the public methods called
\* by several threads, no state is reached in which threads wait in a
\* cycle for guards of each other, and with fair scheduling every call
\* that has started completes.
C13_NoDeadlock ==
    /\ []~WaitCycle
    /\ \A t \in Threads : (thr[t].pc # "idle") ~> (thr[t].pc = "idle")

\* a thread is in exit_block with the guards of depth and of the anchor
\* and waits for the guard of results, which the other thread holds in
\* redundant_time()
C13_Witness ==
    \E t, u \in Threads :
        /\ thr[t].pc = "after_block:results" /\ thr[u].pc = "redundant_time:sum"
        /\ locks["depth"].w = {t} /\ locks["redundant"].r = {t}
        /\ locks["results"].r = {u}
        /\ Blockers(t) = {u}

====
